---- MODULE Spec2Model ----
(***************************************************************************)
(* Bingo Pachinko: the physics step, the round lifecycle and the React     *)
(* state/ref plumbing of src/src/BingoPachinkoGame.tsx (core variant).     *)
(*                                                                         *)
(* Numbers are fixed point.  Positions are in units of 1/S of the board,   *)
(* velocities in units of 1/S of the board per second, times in            *)
(* milliseconds, Math.random() results in units of 1/S.                    *)
(***************************************************************************)
EXTENDS Integers, Sequences, FiniteSets, TLC

\* ------------------------------------------------------------ fixed point

S == 10 ^ 4

Abs(a) == IF a < 0 THEN -a ELSE a

\* a/b rounded to the nearest integer, symmetric around 0 (b > 0)
Rnd(a, b) == IF a >= 0 THEN (2 * a + b) \div (2 * b) ELSE -((2 * (-a) + b) \div (2 * b))

\* Math.floor(a/b) for a >= 0, b > 0
Floor(a, b) == a \div b

\* the digit d of weight w for which base + d * w is the largest such value
\* whose square does not exceed n
SqrtDigit(n, base, w) ==
  CHOOSE d \in 0..31 :
    /\ (base + d * w) * (base + d * w) <= n
    /\ n < (base + (d + 1) * w) * (base + (d + 1) * w)

\* Math.sqrt, rounded down (0 <= n < 2^30), one base-32 digit after the other
Sqrt(n) ==
  LET a == 1024 * SqrtDigit(n, 0, 1024)
      b == a + 32 * SqrtDigit(n, a, 32)
  IN b + SqrtDigit(n, b, 1)

clamp(v, a, b) == IF (IF v < b THEN v ELSE b) > a THEN (IF v < b THEN v ELSE b) ELSE a

\* ------------------------------------------------------------ bounds

\* the stubbed random source: Math.random() returns RandSeq[rng], cyclically
RandSeq == << 9000, 4000, 1000, 5000, 6000, 9999, 0 >>
Seeds == {2}

\* pointer positions left of, on, inside, on and right of the clamp range
PosWide == {-500, 600, 3000, 9400, 12000}

\* clientX / rect.width values the pointer can deliver (units of 1/S)
PosInputs == {0}

\* a release position from which the first ball of the game comes to rest on
\* the pegs instead of draining
WedgeInputs == {9371}

\* interval between two animation frames, in ms
FrameIntervals == {50}

\* frames that may run while a render or an effect flush is still outstanding
MaxLag == 2

\* frames simulated in one specification with only one of them flushed
InputLag == 1

\* frames that may run on unflushed updates in the specification of one drop
LongLag == 9

\* physics frames explored after the first resetBoard or newGame of a behaviour
ResetHorizon == 0

\* offsets selecting the outcome of generateBingoCard: the first card, and the
\* cards newGame may draw
InitCards == {0}
CardSeeds == {0, 7}

\* ------------------------------------------------------------ bingo card

FREE == 0
NoNum == 0
NumMax == 75

ColMin(c) == 15 * (c - 1) + 1

\* one outcome of generateBingoCard: five distinct numbers of the column's
\* range per column, FREE in the centre
generateBingoCard(o) ==
  [r \in 1..5 |-> [c \in 1..5 |->
     IF r = 3 /\ c = 3 THEN FREE ELSE ColMin(c) + ((o * c + 3 * (r - 1)) % 15)]]

RECURSIVE PoolFrom(_, _)
PoolFrom(card, k) ==
  IF k > 25 THEN << >>
  ELSE LET v == card[((k - 1) \div 5) + 1][((k - 1) % 5) + 1]
       IN (IF v # FREE THEN << v >> ELSE << >>) \o PoolFrom(card, k + 1)

cardNumberPool(card) == PoolFrom(card, 1)

SeqToSet(s) == {s[i] : i \in 1..Len(s)}

\* ------------------------------------------------------------ random source

Rand(i) == RandSeq[(i % Len(RandSeq)) + 1]

\* ------------------------------------------------------------ pegs

PegCols == 6
PegLeft == 1200
PegRight == 8800
PegTop == 1500
PegBottom == 9000
BoardPegs == 30

\* the result of 0/0 in generatePegs, absorbing in clamp
NaN == -(10 ^ 6)

CeilDiv(a, b) == (a + b - 1) \div b

\* a peg whose x is not clamped into the inset rectangle
MakePegUnclamped(count, idx, jx, jy) ==
  LET rows == CeilDiv(count, PegCols)
      r == idx \div PegCols
      c == idx % PegCols
      gx == PegLeft + Rnd(c * (PegRight - PegLeft), PegCols - 1)
      gy == IF rows - 1 = 0 THEN NaN ELSE PegTop + Rnd(r * (PegBottom - PegTop), rows - 1)
      stagger == Rnd((r % 2) * (PegRight - PegLeft) * 8, 100)
  IN [id |-> idx,
      x |-> gx + stagger + Rnd((jx - 5000) * 3, 100),
      y |-> IF gy = NaN THEN NaN ELSE clamp(gy + Rnd((jy - 5000) * 3, 100), 1500, 9000),
      removed |-> FALSE, hit |-> FALSE, num |-> NoNum]

\* peg number idx (0-based) of generatePegs(count); jx, jy are the two
\* Math.random() results drawn for it
MakePeg(count, idx, jx, jy) ==
  LET rows == CeilDiv(count, PegCols)
      r == idx \div PegCols
      c == idx % PegCols
      gx == PegLeft + Rnd(c * (PegRight - PegLeft), PegCols - 1)
      gy == IF rows - 1 = 0 THEN NaN ELSE PegTop + Rnd(r * (PegBottom - PegTop), rows - 1)
      stagger == Rnd((r % 2) * (PegRight - PegLeft) * 8, 100)
      jitterX == Rnd((jx - 5000) * 3, 100)
      jitterY == Rnd((jy - 5000) * 3, 100)
  IN [id |-> idx,
      x |-> clamp(gx + stagger + jitterX, 1200, 8800),
      y |-> IF gy = NaN THEN NaN ELSE clamp(gy + jitterY, 1500, 9000),
      removed |-> FALSE, hit |-> FALSE, num |-> NoNum]

\* generatePegs(count) with the random source at position r0
generatePegs(count, r0) ==
  [i \in 1..count |-> MakePeg(count, i - 1, Rand(r0 + 2 * (i - 1)), Rand(r0 + 2 * (i - 1) + 1))]

\* generatePegs(30) of lines 151 and 235, tabulated by the position of the random source
Boards == [r \in 0..(Len(RandSeq) - 1) |-> generatePegs(BoardPegs, r)]

\* ------------------------------------------------------------ number oracle

RECURSIVE FilterUnmarked(_, _)
FilterUnmarked(pool, mk) ==
  IF pool = << >> THEN << >>
  ELSE (IF Head(pool) \in mk THEN << >> ELSE << Head(pool) >>) \o FilterUnmarked(Tail(pool), mk)

\* a pickHitNumber whose biased branch draws from the whole pool
pickHitNumberMarked(pool, mk, roll, r2) ==
  IF Len(pool) > 0 /\ roll < 7500
  THEN pool[Floor(r2 * Len(pool), S) + 1]
  ELSE Floor(r2 * NumMax, S) + 1

\* pickHitNumber(pool, marked); roll and r2 are the two Math.random() results
pickHitNumber(pool, mk, roll, r2) ==
  LET unmarked == FilterUnmarked(pool, mk)
  IN IF Len(unmarked) > 0 /\ roll < 7500
     THEN unmarked[Floor(r2 * Len(unmarked), S) + 1]
     ELSE Floor(r2 * NumMax, S) + 1

\* ------------------------------------------------------------ ball physics

rBall == 300
rPeg == 180
minDist == rBall + rPeg
rr == (rBall + rPeg) * (rBall + rPeg)
DrainY == 10600
CleanupY == 10500
SpawnX == 5000
SpawnY == 600
ReleaseVy == 200
StartBalls == 5
PosMin == 600
PosMax == 9400

\* an elapsed time used as it comes
ClampDtOpen(elapsed) == elapsed

\* dt = Math.min(0.02, (now - lastUpdateRef.current) / 1000), in ms
ClampDt(elapsed) == IF elapsed < 20 THEN elapsed ELSE 20

\* v * Math.pow(0.999, dt * 60): 0.999^(0.06 dt) = 1 - 60 dt / 10^6 to 7 digits
Damp(v, dt) == v - Rnd(v * 60 * dt, 10 ^ 6)

\* gravity, damping, integration (lines 283-290)
Integrate(b, dt) ==
  LET vx == Damp(b.vx, dt)
      vy == Damp(b.vy + Rnd(15500 * dt, 1000), dt)
  IN [x |-> b.x + Rnd(vx * dt, 1000), y |-> b.y + Rnd(vy * dt, 1000), vx |-> vx, vy |-> vy]

\* a board without walls
WallsOpen(m) == m

\* walls with a floor at the drain line
WallsWithFloor(m) ==
  LET m1 == IF m.x < rBall THEN [m EXCEPT !.x = rBall, !.vx = Rnd(m.vx * (-85), 100)] ELSE m
      m2 == IF m1.x > S - rBall THEN [m1 EXCEPT !.x = S - rBall, !.vx = Rnd(m1.vx * (-85), 100)] ELSE m1
      m3 == IF m2.y < rBall THEN [m2 EXCEPT !.y = rBall, !.vy = Rnd(m2.vy * (-35), 100)] ELSE m2
  IN IF m3.y > DrainY THEN [m3 EXCEPT !.y = DrainY, !.vy = Rnd(m3.vy * (-35), 100)] ELSE m3

\* wall collisions (lines 292-305)
Walls(m) ==
  LET m1 == IF m.x < rBall THEN [m EXCEPT !.x = rBall, !.vx = Rnd(m.vx * (-85), 100)] ELSE m
      m2 == IF m1.x > S - rBall THEN [m1 EXCEPT !.x = S - rBall, !.vx = Rnd(m1.vx * (-85), 100)] ELSE m1
      m3 == IF m2.y < rBall THEN [m2 EXCEPT !.y = rBall, !.vy = Rnd(m2.vy * (-35), 100)] ELSE m2
  IN m3

Dist2(x, y, p) == (x - p.x) * (x - p.x) + (y - p.y) * (y - p.y)

\* a collision test that forgets the ball's radius
TouchesCentre(x, y, p) == ~p.removed /\ Dist2(x, y, p) <= rPeg * rPeg

\* a collision test that leaves the boundary out
TouchesInside(x, y, p) == ~p.removed /\ Dist2(x, y, p) < rr

\* the peg loop's collision test (line 323)
Touches(x, y, p) == ~p.removed /\ Dist2(x, y, p) <= rr

\* ids added to hitPegIdsRef by the peg loop (line 324)
TouchedIds(ps, x, y) == {ps[i].id : i \in {j \in 1..Len(ps) : Touches(x, y, ps[j])}}

\* pegUpdates of the peg loop (lines 325-328): one {id, num} per touched peg whose
\* hit flag is still false in the scanned collection, in peg order; r0 is the
\* position of the random source before the loop
RECURSIVE PegUpdates(_, _, _, _, _, _, _)
PegUpdates(ps, i, x, y, pool, mk, r0) ==
  IF i > Len(ps) THEN << >>
  ELSE IF Touches(x, y, ps[i]) /\ ~ps[i].hit
       THEN << [id |-> ps[i].id, num |-> pickHitNumber(pool, mk, Rand(r0), Rand(r0 + 1))] >>
            \o PegUpdates(ps, i + 1, x, y, pool, mk, r0 + 2)
       ELSE PegUpdates(ps, i + 1, x, y, pool, mk, r0)

\* a search for the closest peg that keeps the last one on ties
RECURSIVE ClosestFromLast(_, _, _, _, _, _)
ClosestFromLast(ps, i, x, y, best, bestD) ==
  IF i > Len(ps) THEN best
  ELSE IF ~ps[i].removed /\ (best = 0 \/ Dist2(x, y, ps[i]) <= bestD)
       THEN ClosestFromLast(ps, i + 1, x, y, i, Dist2(x, y, ps[i]))
       ELSE ClosestFromLast(ps, i + 1, x, y, best, bestD)

\* index of the closest non-removed peg, the first one on ties (lines 331-335);
\* 0 when every peg is removed
RECURSIVE ClosestFrom(_, _, _, _, _, _)
ClosestFrom(ps, i, x, y, best, bestD) ==
  IF i > Len(ps) THEN best
  ELSE IF ~ps[i].removed /\ (best = 0 \/ Dist2(x, y, ps[i]) < bestD)
       THEN ClosestFrom(ps, i + 1, x, y, i, Dist2(x, y, ps[i]))
       ELSE ClosestFrom(ps, i + 1, x, y, best, bestD)

Closest(ps, x, y) == ClosestFrom(ps, 1, x, y, 0, 0)

\* Math.sqrt(dx * dx + dy * dy) || 1   (line 353)
PegDist(m, p) == IF Dist2(m.x, m.y, p) = 0 THEN S ELSE Sqrt(Dist2(m.x, m.y, p))

\* bounce off peg p (lines 351-367)
BounceOff(m, p) ==
  LET dist == PegDist(m, p)
      nx == Rnd((m.x - p.x) * S, dist)
      ny == Rnd((m.y - p.y) * S, dist)
      vdot == Rnd(m.vx * nx + m.vy * ny, S)
  IN IF dist < minDist
     THEN [x |-> clamp(m.x + Rnd(nx * (minDist - dist) * 8, 10 * S), 300, 9700),
           y |-> clamp(m.y + Rnd(ny * (minDist - dist) * 8, 10 * S), 300, 11000),
           vx |-> Rnd((m.vx - Rnd(2 * vdot * nx, S)) * 88, 100),
           vy |-> Rnd((m.vy - Rnd(2 * vdot * ny, S)) * 88, 100)]
     ELSE m

\* bounce with the closest peg (lines 349-368)
Bounce(ps, m) ==
  LET c == Closest(ps, m.x, m.y)
  IN IF c = 0 THEN m ELSE BounceOff(m, ps[c])

\* the ball written to ballRef at the end of a physics frame (lines 370-379)
Settle(m) ==
  IF m.y > DrainY
  THEN [x |-> m.x, y |-> DrainY, vx |-> 0, vy |-> 0, dropping |-> FALSE]
  ELSE [x |-> m.x, y |-> m.y, vx |-> m.vx, vy |-> m.vy, dropping |-> TRUE]

\* an updater that records the number and leaves the hit flag
ApplyUpdatesNoHit(ps, ups) ==
  [i \in 1..Len(ps) |->
     IF \E k \in 1..Len(ups) : ups[k].id = ps[i].id
     THEN [ps[i] EXCEPT !.num = ups[CHOOSE k \in 1..Len(ups) : ups[k].id = ps[i].id].num]
     ELSE ps[i]]

\* setPegs updater of the physics frame (lines 340-346)
ApplyUpdates(ps, ups) ==
  [i \in 1..Len(ps) |->
     IF \E k \in 1..Len(ups) : ups[k].id = ps[i].id
     THEN [ps[i] EXCEPT !.hit = TRUE,
                        !.num = ups[CHOOSE k \in 1..Len(ups) : ups[k].id = ps[i].id].num]
     ELSE ps[i]]

\* the moving cup of the variant with the cup (part_002 lines 194-197, 455-462, 618-626)
CupX0 == 5000
CupSpeed == 1000
CupMin == 1500
CupMax == 8500
CupHalf == 600
CupTop == 9600
MaxBalls == 10

\* ------------------------------------------------------------ state

VARIABLES
  card,             \* useState card (5x5, FREE in the centre)
  marked,           \* useState marked
  pegs,             \* useState pegs
  ballsLeft,        \* useState ballsLeft
  ball,             \* useState ball
  rendered,         \* the values of the last committed render (what closures see)
  pending,          \* hooks set since the last committed render
  effects,          \* hooks whose useEffect of the last commit has not run yet
  ballRef, pegsRef, poolRef, markedRef,    \* the refs the effects keep in sync
  hitPegIdsRef,     \* ids touched during the current drop
  isPositioningRef,
  stepPool,         \* pool closed over by the markNumber of the running step effect
  frameCount,       \* local counter of the running step effect
  rng,              \* position of the random source
  lag,              \* frames run since the oldest update not yet flushed
  op,               \* the handler or callback that ran last
  afterReset,       \* 0 before the first reset, then 1 + the physics frames run since
  emitted,          \* numbers passed to markNumber by the last callback, in order
  call,             \* the helper function applied last on its own, with arguments and result
  cup,              \* cupXRef and cupDirectionRef of the variant with the moving cup
  releases          \* releases handleEnd has accepted since the game began

gameVars == << card, marked, pegs, ballsLeft, ball, rendered, pending, effects,
               ballRef, pegsRef, poolRef, markedRef, hitPegIdsRef, isPositioningRef,
               stepPool, frameCount, rng, lag, op, afterReset, emitted, cup, releases >>

vars == << card, marked, pegs, ballsLeft, ball, rendered, pending, effects,
           ballRef, pegsRef, poolRef, markedRef, hitPegIdsRef, isPositioningRef,
           stepPool, frameCount, rng, lag, op, afterReset, emitted, call, cup, releases >>

\* no helper function has been applied on its own
NoCall == [fn |-> "none"]

RngLen == Len(RandSeq)

SpawnBall == [x |-> SpawnX, y |-> SpawnY, vx |-> 0, vy |-> 0, dropping |-> FALSE]

Snapshot(c, mk, ps, bl, b) == [card |-> c, marked |-> mk, pegs |-> ps, ballsLeft |-> bl, ball |-> b]

\* the cup of the variant with the moving cup when the component mounts
\* (part_002 lines 195-196)
CupMount == [x |-> CupX0, dir |-> 1]

\* the component after its first render and effects (lines 147-186), cup aside,
\* with one of the cards generateBingoCard can return
Mounted(cards) ==
  \E seed \in Seeds, o \in cards :
    /\ card = generateBingoCard(o)
    /\ marked = {}
    /\ pegs = Boards[seed % RngLen]
    /\ ballsLeft = StartBalls
    /\ ball = SpawnBall
    /\ rendered = Snapshot(card, marked, pegs, ballsLeft, ball)
    /\ pending = {}
    /\ effects = {}
    /\ ballRef = SpawnBall
    /\ pegsRef = pegs
    /\ poolRef = cardNumberPool(card)
    /\ markedRef = marked
    /\ hitPegIdsRef = {}
    /\ isPositioningRef = FALSE
    /\ stepPool = cardNumberPool(card)
    /\ frameCount = 0
    /\ rng = (seed + 2 * BoardPegs) % RngLen
    /\ lag = 0
    /\ op = "init"
    /\ afterReset = 0
    /\ emitted = << >>
    /\ call = NoCall
    /\ releases = 0

InitGame == Mounted(InitCards)

\* the component after its first render and effects
Init == InitGame /\ cup = CupMount

\* a first card without the number 31, which the random branch of
\* pickHitNumber can return
StrayCards == {3}

InitStray == Mounted(StrayCards) /\ cup = CupMount

\* ------------------------------------------------------------ render and effects

\* the useEffect bodies of lines 172-186, run for the hooks in deps with the
\* values v of the committed render
RefBall(deps, v, cur) == IF "ball" \in deps THEN v.ball ELSE cur
RefPegs(deps, v, cur) == IF "pegs" \in deps THEN v.pegs ELSE cur
RefPool(deps, v, cur) == IF "card" \in deps THEN cardNumberPool(v.card) ELSE cur
RefMarked(deps, v, cur) == IF "marked" \in deps THEN v.marked ELSE cur

\* React commits a render of the queued updates; the effects of an earlier commit
\* that have not run yet are flushed first
Commit ==
  /\ pending # {}
  /\ rendered' = Snapshot(card, marked, pegs, ballsLeft, ball)
  /\ effects' = pending
  /\ pending' = {}
  /\ ballRef' = RefBall(effects, rendered, ballRef)
  /\ pegsRef' = RefPegs(effects, rendered, pegsRef)
  /\ poolRef' = RefPool(effects, rendered, poolRef)
  /\ markedRef' = RefMarked(effects, rendered, markedRef)
  /\ stepPool' = IF effects # {} THEN cardNumberPool(rendered.card) ELSE stepPool
  /\ frameCount' = IF effects # {} THEN 0 ELSE frameCount
  /\ op' = "commit"
  /\ UNCHANGED << call, cup, releases >>
  /\ emitted' = << >>
  /\ UNCHANGED << card, marked, pegs, ballsLeft, ball, hitPegIdsRef, isPositioningRef, rng, lag,
                  afterReset >>

\* the passive effects of the last commit run (lines 172-186 and the physics
\* effect of lines 252-410, re-created because markNumber is new on every render)
RunEffects ==
  /\ effects # {}
  /\ ballRef' = RefBall(effects, rendered, ballRef)
  /\ pegsRef' = RefPegs(effects, rendered, pegsRef)
  /\ poolRef' = RefPool(effects, rendered, poolRef)
  /\ markedRef' = RefMarked(effects, rendered, markedRef)
  /\ stepPool' = cardNumberPool(rendered.card)
  /\ frameCount' = 0
  /\ effects' = {}
  /\ lag' = IF pending = {} THEN 0 ELSE lag
  /\ op' = "effects"
  /\ UNCHANGED << call, cup, releases >>
  /\ emitted' = << >>
  /\ UNCHANGED << card, marked, pegs, ballsLeft, ball, rendered, pending,
                  hitPegIdsRef, isPositioningRef, rng, afterReset >>

\* ------------------------------------------------------------ frame step

\* hitNums of the end-of-drop cleanup (lines 265-273), in peg order
RECURSIVE HitNums(_, _, _)
HitNums(ps, i, hitIds) ==
  IF i > Len(ps) THEN << >>
  ELSE (IF ~ps[i].removed /\ ps[i].id \in hitIds /\ ps[i].num # NoNum
        THEN << ps[i].num >> ELSE << >>) \o HitNums(ps, i + 1, hitIds)

\* a cleanup that forgets to set the removed flag
CleanupMapKeepsPegs(ps, hitIds) == ps

\* next of the end-of-drop cleanup (lines 268-273)
CleanupMap(ps, hitIds) ==
  [i \in 1..Len(ps) |->
     IF ps[i].removed THEN ps[i]
     ELSE IF ps[i].id \notin hitIds THEN ps[i]
     ELSE [ps[i] EXCEPT !.removed = TRUE]]

\* a markNumber that marks every emitted number, on the card or not
MarkAllAnyNumber(ns, pool, mk) == mk \cup SeqToSet(ns)

\* the numbers of ns that markNumber (lines 224-232) adds to the marked set
MarkAll(ns, pool, mk) == mk \cup {n \in SeqToSet(ns) : n \in SeqToSet(pool)}

\* a cleanup test that forgets the size of the touched set
CleanupDueNoSize == ballRef.y >= CleanupY

\* the cleanup test of line 263
CleanupDue == ballRef.y >= CleanupY /\ hitPegIdsRef # {}

Lagging == pending # {} \/ effects # {}

\* a not-dropping branch that also puts the settled ball back at the spawn point
StepNotDroppingRespawn ==
  /\ emitted' = << >>
  /\ ballRef' = IF CleanupDue THEN SpawnBall ELSE ballRef
  /\ lag' = IF Lagging THEN lag + 1 ELSE 0
  /\ UNCHANGED << card, marked, pegs, ballsLeft, ball, rendered, pending, effects, pegsRef, poolRef,
                  markedRef, hitPegIdsRef, isPositioningRef, stepPool, frameCount, rng >>

\* end-of-drop cleanup (lines 261-281)
StepNotDropping ==
  /\ IF CleanupDue
     THEN /\ emitted' = HitNums(pegsRef, 1, hitPegIdsRef)
          /\ marked' = MarkAll(emitted', stepPool, marked)
          /\ pegs' = CleanupMap(pegsRef, hitPegIdsRef)
          /\ hitPegIdsRef' = {}
          /\ pending' = pending \cup {"pegs"} \cup (IF marked' # marked THEN {"marked"} ELSE {})
          /\ lag' = lag + 1
     ELSE /\ emitted' = << >>
          /\ lag' = IF Lagging THEN lag + 1 ELSE 0
          /\ UNCHANGED << marked, pegs, hitPegIdsRef, pending >>
  /\ UNCHANGED << card, ballsLeft, ball, rendered, effects, ballRef, pegsRef, poolRef,
                  markedRef, isPositioningRef, stepPool, frameCount, rng >>

\* one physics frame (lines 283-401)
StepDropping(dt) ==
  \E m \in {Walls(Integrate(ballRef, dt))} :
  \E ups \in {PegUpdates(pegsRef, 1, m.x, m.y, poolRef, markedRef, rng)} :
  \E nb \in {Settle(Bounce(pegsRef, m))} :
  LET publish == ~nb.dropping \/ (frameCount + 1) % 3 = 0
  IN /\ hitPegIdsRef' = hitPegIdsRef \cup TouchedIds(pegsRef, m.x, m.y)
     /\ rng' = (rng + 2 * Len(ups)) % RngLen
     /\ pegs' = IF Len(ups) > 0 THEN ApplyUpdates(pegs, ups) ELSE pegs
     /\ ballRef' = nb
     /\ frameCount' = IF nb.dropping THEN frameCount + 1 ELSE frameCount
     /\ ball' = IF publish THEN nb ELSE ball
     /\ pending' = pending \cup (IF Len(ups) > 0 THEN {"pegs"} ELSE {})
                           \cup (IF publish THEN {"ball"} ELSE {})
     /\ lag' = IF pending' # {} \/ effects # {} THEN lag + 1 ELSE 0
     /\ emitted' = << >>
     /\ UNCHANGED << card, marked, ballsLeft, rendered, effects, pegsRef, poolRef,
                     markedRef, isPositioningRef, stepPool >>

\* the requestAnimationFrame callback (lines 256-402); elapsed is now - lastUpdateRef
\* in ms, maxLag the number of frames that may run on unflushed updates
Step(elapsed, maxLag) ==
  /\ ~Lagging \/ lag < maxLag
  /\ ~ballRef.dropping \/ afterReset <= ResetHorizon
  /\ afterReset' = IF afterReset = 0 \/ ~ballRef.dropping THEN afterReset ELSE afterReset + 1
  /\ op' = "step"
  /\ UNCHANGED << call, cup, releases >>
  /\ IF ~ballRef.dropping THEN StepNotDropping ELSE StepDropping(ClampDt(elapsed))

\* ------------------------------------------------------------ input handlers

\* A handler of a discrete event (mouse down/up, touch start/end, click) that set
\* state: React renders and runs the effects before the event returns.  nc..nb are
\* the state after the handler's updates, set the hooks it set.
SyncRender(nc, nmk, nps, nbl, nb, set) ==
  LET deps == pending \cup effects \cup set
  IN /\ card' = nc
     /\ marked' = nmk
     /\ pegs' = nps
     /\ ballsLeft' = nbl
     /\ ball' = nb
     /\ rendered' = Snapshot(nc, nmk, nps, nbl, nb)
     /\ ballRef' = IF "ball" \in deps THEN nb ELSE ballRef
     /\ pegsRef' = IF "pegs" \in deps THEN nps ELSE pegsRef
     /\ poolRef' = IF "card" \in deps THEN cardNumberPool(nc) ELSE poolRef
     /\ markedRef' = IF "marked" \in deps THEN nmk ELSE markedRef
     /\ stepPool' = cardNumberPool(nc)
     /\ frameCount' = 0
     /\ pending' = {}
     /\ effects' = {}
     /\ lag' = 0

NoRender ==
  UNCHANGED << card, marked, pegs, ballsLeft, ball, rendered, pending, effects, ballRef,
               pegsRef, poolRef, markedRef, stepPool, frameCount, lag >>

\* a guard that forgets the balls left
RejectedIgnoresBalls == ballRef.dropping

\* a guard that forgets the dropping flag
RejectedIgnoresDropping == rendered.ballsLeft <= 0

\* the guard of lines 416, 439 and 461
Rejected == ballRef.dropping \/ rendered.ballsLeft <= 0

\* a setBall updater that takes the pointer position as it comes
PositionedUnclamped(prev, px) == IF prev.dropping THEN prev ELSE [prev EXCEPT !.x = px]

\* the setBall updater of lines 429-432 and 448-451
Positioned(prev, px) == IF prev.dropping THEN prev ELSE [prev EXCEPT !.x = clamp(px, PosMin, PosMax)]

\* a handleStart without the guard of line 416 and the test of line 430
HandleStartUngated(px) ==
  /\ op' = "start"
  /\ UNCHANGED << call, cup, releases >>
  /\ emitted' = << >>
  /\ isPositioningRef' = TRUE
  /\ UNCHANGED << hitPegIdsRef, rng, afterReset >>
  /\ SyncRender(card, marked, pegs, ballsLeft, [ball EXCEPT !.x = clamp(px, PosMin, PosMax)], {"ball"})

\* handleStart (lines 414-433); px is (clientX - rect.left) / rect.width
HandleStart(px) ==
  /\ op' = "start"
  /\ UNCHANGED << call, cup, releases >>
  /\ emitted' = << >>
  /\ UNCHANGED << hitPegIdsRef, rng, afterReset >>
  /\ IF Rejected
     THEN NoRender /\ UNCHANGED isPositioningRef
     ELSE /\ isPositioningRef' = TRUE
          /\ IF ball.dropping /\ isPositioningRef
             THEN NoRender
             ELSE SyncRender(card, marked, pegs, ballsLeft, Positioned(ball, px),
                             IF ball.dropping THEN {} ELSE {"ball"})

\* handleMove (lines 435-452), a continuous event: the update is rendered later
HandleMove(px) ==
  /\ op' = "move"
  /\ UNCHANGED << call, cup, releases >>
  /\ emitted' = << >>
  /\ UNCHANGED << card, marked, pegs, ballsLeft, rendered, effects, ballRef, pegsRef, poolRef,
                  markedRef, hitPegIdsRef, isPositioningRef, stepPool, frameCount, rng, lag,
                  afterReset >>
  /\ IF ~isPositioningRef \/ Rejected
     THEN UNCHANGED << ball, pending >>
     ELSE /\ ball' = Positioned(ball, px)
          /\ pending' = IF ball.dropping THEN pending ELSE pending \cup {"ball"}

\* a release that puts the ball back at the spawn point first
ReleasedAtSpawn(prev, r) ==
  [prev EXCEPT !.x = SpawnX, !.y = SpawnY, !.vx = Rnd((r - 5000) * 18, 100), !.vy = ReleaseVy,
               !.dropping = TRUE]

\* a release with twice the horizontal spread
ReleasedWide(prev, r) ==
  [prev EXCEPT !.y = SpawnY, !.vx = Rnd((r - 5000) * 36, 100), !.vy = ReleaseVy, !.dropping = TRUE]

\* the setBall updater of the release (lines 473-479); r is the Math.random() result
Released(prev, r) ==
  [prev EXCEPT !.y = SpawnY, !.vx = Rnd((r - 5000) * 18, 100), !.vy = ReleaseVy, !.dropping = TRUE]

\* handleEnd (lines 454-480)
HandleEnd ==
  /\ op' = "end"
  /\ UNCHANGED << call, cup >>
  /\ emitted' = << >>
  /\ UNCHANGED afterReset
  /\ IF ~isPositioningRef
     THEN NoRender /\ UNCHANGED << isPositioningRef, hitPegIdsRef, rng, releases >>
     ELSE /\ isPositioningRef' = FALSE
          /\ IF Rejected
             THEN /\ SyncRender(card, marked, pegs, ballsLeft, ball, {})
                  /\ UNCHANGED << hitPegIdsRef, rng, releases >>
             ELSE /\ hitPegIdsRef' = {}
                  /\ releases' = releases + 1
                  /\ rng' = (rng + 1) % RngLen
                  /\ SyncRender(card, marked, pegs,
                                IF ballsLeft - 1 > 0 THEN ballsLeft - 1 ELSE 0,
                                Released(ball, Rand(rng)), {"ball", "ballsLeft"})

\* a resetBoard that also refills the balls
ResetBoardRefills ==
  /\ op' = "resetBoard"
  /\ UNCHANGED << call, cup, releases >>
  /\ emitted' = << >>
  /\ afterReset' = IF afterReset = 0 THEN 1 ELSE afterReset
  /\ hitPegIdsRef' = {}
  /\ rng' = (rng + 2 * BoardPegs) % RngLen
  /\ UNCHANGED isPositioningRef
  /\ SyncRender(card, marked, Boards[rng], StartBalls, SpawnBall, {"pegs", "ball", "ballsLeft"})

\* resetBoard (lines 234-241), from the button's click
ResetBoard ==
  /\ op' = "resetBoard"
  /\ UNCHANGED << call, cup, releases >>
  /\ emitted' = << >>
  /\ afterReset' = IF afterReset = 0 THEN 1 ELSE afterReset
  /\ hitPegIdsRef' = {}
  /\ rng' = (rng + 2 * BoardPegs) % RngLen
  /\ UNCHANGED isPositioningRef
  /\ SyncRender(card, marked, Boards[rng], ballsLeft, SpawnBall, {"pegs", "ball"})

\* a newGame that keeps the marks of the old card
NewGameKeepsMarks(o) ==
  /\ op' = "newGame"
  /\ UNCHANGED << call, cup >>
  /\ releases' = 0
  /\ emitted' = << >>
  /\ afterReset' = IF afterReset = 0 THEN 1 ELSE afterReset
  /\ hitPegIdsRef' = {}
  /\ rng' = (rng + 2 * BoardPegs) % RngLen
  /\ UNCHANGED isPositioningRef
  /\ SyncRender(generateBingoCard(o), marked, Boards[rng], StartBalls, SpawnBall,
                {"card", "ballsLeft", "pegs", "ball"})

\* newGame (lines 243-248), from the button's click; o selects the new card
NewGame(o) ==
  /\ op' = "newGame"
  /\ UNCHANGED << call, cup >>
  /\ releases' = 0
  /\ emitted' = << >>
  /\ afterReset' = IF afterReset = 0 THEN 1 ELSE afterReset
  /\ hitPegIdsRef' = {}
  /\ rng' = (rng + 2 * BoardPegs) % RngLen
  /\ UNCHANGED isPositioningRef
  /\ SyncRender(generateBingoCard(o), {}, Boards[rng], StartBalls, SpawnBall,
                {"card", "marked", "ballsLeft", "pegs", "ball"})

\* ------------------------------------------------------------ the variant with the cup

\* the cup when the ball is released, where the frames since the mount have taken
\* it: on its way to the ball's landing place, to the edge of it, and away from it
CupStarts == {[x |-> 3000, dir |-> -1], [x |-> 1760, dir |-> -1], [x |-> 5000, dir |-> 1]}

\* frames of the variant that may run on updates React has not flushed yet
CupLag == 3

\* the height below which React may fall behind the frames of the variant
CupNear == 9000

\* where the ball is released
CupReleases == {SpawnX}

\* balls left after the release
CupBalls == {StartBalls - 1, MaxBalls - 1}

\* cupStep (part_002 lines 448-468)
CupMove(c, dt) ==
  LET nx == c.x + c.dir * Rnd(CupSpeed * dt, 1000)
  IN IF nx < CupMin THEN [x |-> CupMin, dir |-> 1]
     ELSE IF nx > CupMax THEN [x |-> CupMax, dir |-> -1]
     ELSE [x |-> nx, dir |-> c.dir]

\* the capture test of part_002 line 624
InCup(m, cx) == m.y > CupTop /\ m.y < DrainY /\ m.x >= cx - CupHalf /\ m.x <= cx + CupHalf

\* how a physics frame of the variant ends (part_002 lines 617-662)
CupOutcome(m, cx) ==
  IF InCup(m, cx) THEN "capture" ELSE IF m.y > DrainY THEN "drain" ELSE "fall"

\* the ball written to ballRef at the end of a physics frame (part_002 lines 648, 655, 662)
CupSettle(m, cx) ==
  IF CupOutcome(m, cx) = "fall"
  THEN [x |-> m.x, y |-> m.y, vx |-> m.vx, vy |-> m.vy, dropping |-> TRUE]
  ELSE [x |-> m.x, y |-> DrainY, vx |-> 0, vy |-> 0, dropping |-> FALSE]

\* the setBallsLeft updater of a capture (part_002 line 626)
Caught(prev) == IF prev + 1 < MaxBalls THEN prev + 1 ELSE MaxBalls

\* markNumber of the variant (part_002 lines 325-349) for the numbers of ns
CupMarkAll(ns, pool, mkRef, mk) ==
  mk \cup {n \in SeqToSet(ns) : n \in SeqToSet(pool) /\ n \notin mkRef}

\* The component of the variant right after a release (part_002 lines 738-764):
\* the ball leaves x with bl balls left.
InitCup ==
  \E seed \in Seeds, o \in InitCards, x \in CupReleases, bl \in CupBalls :
    /\ card = generateBingoCard(o)
    /\ marked = {}
    /\ pegs = Boards[seed % RngLen]
    /\ ballsLeft = bl
    /\ ball = Released([SpawnBall EXCEPT !.x = x], Rand(seed + 2 * BoardPegs))
    /\ rendered = Snapshot(card, marked, pegs, ballsLeft, ball)
    /\ pending = {}
    /\ effects = {}
    /\ ballRef = ball
    /\ pegsRef = pegs
    /\ poolRef = cardNumberPool(card)
    /\ markedRef = marked
    /\ hitPegIdsRef = {}
    /\ isPositioningRef = FALSE
    /\ stepPool = cardNumberPool(card)
    /\ frameCount = 0
    /\ rng = (seed + 2 * BoardPegs + 1) % RngLen
    /\ lag = 0
    /\ op = "end"
    /\ afterReset = 0
    /\ emitted = << >>
    /\ call = NoCall
    /\ cup \in CupStarts
    /\ releases = 1

\* React commits a render of the variant
CupCommit ==
  /\ pending # {}
  /\ rendered' = Snapshot(card, marked, pegs, ballsLeft, ball)
  /\ effects' = pending
  /\ pending' = {}
  /\ ballRef' = RefBall(effects, rendered, ballRef)
  /\ pegsRef' = RefPegs(effects, rendered, pegsRef)
  /\ poolRef' = RefPool(effects, rendered, poolRef)
  /\ markedRef' = RefMarked(effects, rendered, markedRef)
  /\ op' = "commit"
  /\ emitted' = << >>
  /\ UNCHANGED << card, marked, pegs, ballsLeft, ball, hitPegIdsRef, isPositioningRef, rng, lag,
                  afterReset, stepPool, frameCount, call, cup, releases >>

\* the passive effects of the variant's last commit run (part_002 lines 227-250)
CupRunEffects ==
  /\ effects # {}
  /\ ballRef' = RefBall(effects, rendered, ballRef)
  /\ pegsRef' = RefPegs(effects, rendered, pegsRef)
  /\ poolRef' = RefPool(effects, rendered, poolRef)
  /\ markedRef' = RefMarked(effects, rendered, markedRef)
  /\ effects' = {}
  /\ lag' = IF pending = {} THEN 0 ELSE lag
  /\ op' = "effects"
  /\ emitted' = << >>
  /\ UNCHANGED << card, marked, pegs, ballsLeft, ball, rendered, pending,
                  hitPegIdsRef, isPositioningRef, rng, afterReset, stepPool, frameCount,
                  call, cup, releases >>

\* end-of-drop cleanup of the variant (part_002 lines 484-507)
CupStepNotDropping ==
  /\ IF CleanupDue
     THEN /\ pegs' = CleanupMap(pegsRef, hitPegIdsRef)
          /\ hitPegIdsRef' = {}
          /\ pending' = pending \cup {"pegs", "cupX"}
     ELSE /\ pending' = pending \cup {"cupX"}
          /\ UNCHANGED << pegs, hitPegIdsRef >>
  /\ emitted' = << >>
  /\ UNCHANGED << card, marked, ballsLeft, ball, rendered, effects, ballRef, pegsRef, poolRef,
                  markedRef, isPositioningRef, stepPool, frameCount, rng >>

\* one physics frame of the variant (part_002 lines 509-690); the marks of the
\* computer players are left out
CupStepDropping(dt) ==
  \E m \in {Walls(Integrate(ballRef, dt))} :
  \E ups \in {PegUpdates(pegsRef, 1, m.x, m.y, poolRef, markedRef, rng)} :
  \E b \in {Bounce(pegsRef, m)} :
  \E nb \in {CupSettle(b, cup'.x)} :
  LET publish == ~nb.dropping \/ (frameCount + 1) % 3 = 0
      caught == CupOutcome(b, cup'.x) = "capture"
  IN /\ hitPegIdsRef' = hitPegIdsRef \cup TouchedIds(pegsRef, m.x, m.y)
     /\ rng' = (rng + 2 * Len(ups)) % RngLen
     /\ emitted' = [k \in 1..Len(ups) |-> ups[k].num]
     /\ marked' = CupMarkAll(emitted', poolRef, markedRef, marked)
     /\ pegs' = IF Len(ups) > 0 THEN ApplyUpdates(pegs, ups) ELSE pegs
     /\ ballsLeft' = IF caught THEN Caught(ballsLeft) ELSE ballsLeft
     /\ ballRef' = nb
     /\ frameCount' = IF nb.dropping THEN frameCount + 1 ELSE frameCount
     /\ ball' = IF publish THEN nb ELSE ball
     /\ pending' = pending \cup {"cupX"}
                           \cup (IF Len(ups) > 0 THEN {"pegs"} ELSE {})
                           \cup (IF marked' # marked THEN {"marked"} ELSE {})
                           \cup (IF caught THEN {"ballsLeft"} ELSE {})
                           \cup (IF publish THEN {"ball"} ELSE {})
     /\ UNCHANGED << card, rendered, effects, pegsRef, poolRef,
                     markedRef, isPositioningRef, stepPool >>

\* One animation frame of the variant: cupStep, registered first (part_002 lines
\* 445-472), then step (lines 476-694), with nothing in between.
CupFrame(elapsed, maxLag) ==
  /\ ~Lagging \/ lag < maxLag
  /\ cup' = CupMove(cup, ClampDt(elapsed))
  /\ lag' = lag + 1
  /\ op' = "step"
  /\ UNCHANGED << call, afterReset, releases >>
  /\ IF ~ballRef.dropping THEN CupStepNotDropping ELSE CupStepDropping(ClampDt(elapsed))

\* ------------------------------------------------------------ helpers on their own

\* random sources for generatePegs called on its own: Math.random() returns the
\* entries of the sequence, cyclically
JitterSources == {RandSeq, << 0 >>, << 9999 >>, << 0, 9999 >>, << 9999, 0 >>, << 5000, 2500, 7500 >>}

\* counts generatePegs is called with
PegCounts == {1, 5, 6, 7, 12, 29, 30, 31}

\* generatePegs(count) with Math.random() returning src from position r0 on
PegsFrom(count, src, r0) ==
  [i \in 1..count |-> MakePeg(count, i - 1, src[((r0 + 2 * (i - 1)) % Len(src)) + 1],
                                            src[((r0 + 2 * (i - 1) + 1) % Len(src)) + 1])]

CallGeneratePegs(count, src, r0) ==
  /\ call = NoCall
  /\ call' = [fn |-> "generatePegs", count |-> count, out |-> PegsFrom(count, src, r0)]
  /\ UNCHANGED gameVars

\* pools, marked sets and Math.random() results pickHitNumber is called with
PickPools == {cardNumberPool(generateBingoCard(0)), cardNumberPool(generateBingoCard(7)),
              << 5, 20, 75 >>, << >>}
PickMarked(pool) ==
  {{}, SeqToSet(pool), {pool[i] : i \in {j \in 1..Len(pool) : j % 2 = 0}}, {5, 34}}
PickRolls == {0, 7499, 7500, 9999}
PickDraws == {0, 3333, 9999}

CallPickHitNumber(pool, mk, roll, r2) ==
  /\ call = NoCall
  /\ call' = [fn |-> "pickHitNumber", pool |-> pool, marked |-> mk, roll |-> roll,
              out |-> pickHitNumber(pool, mk, roll, r2)]
  /\ UNCHANGED gameVars

\* a markNumber that toggles the mark
markNumberToggle(n, pool, mk) ==
  IF n \notin SeqToSet(pool) THEN mk ELSE IF n \in mk THEN mk \ {n} ELSE mk \cup {n}

\* the marked set after markNumber(n) (lines 224-232) on the marked set mk
markNumber(n, pool, mk) ==
  IF n \notin SeqToSet(pool) THEN mk ELSE IF n \in mk THEN mk ELSE mk \cup {n}

\* the marked set after markNumber(n) of the variant with the cup (part_002
\* lines 325-349), markedRef holding mkRef
CupMarkNumber(n, pool, mkRef, mk) ==
  IF n \notin SeqToSet(pool) THEN mk
  ELSE IF n \in mkRef THEN mk
  ELSE IF n \in mk THEN mk ELSE mk \cup {n}

\* numbers markNumber is called with: on the cards of PickPools and on none
MarkNumbers == {1, 5, 34, 75, 76}

\* markNumber(n) called once and twice on the marked set mk; variant is "core",
\* or "cup" with markedRef in step with the marked set or a render behind ({})
CallMarkNumber(variant, pool, mk, n, stale) ==
  /\ call = NoCall
  /\ \E once \in {IF variant = "core" THEN markNumber(n, pool, mk)
                   ELSE CupMarkNumber(n, pool, IF stale THEN {} ELSE mk, mk)} :
       call' = [fn |-> "markNumber", variant |-> variant, pool |-> pool, marked |-> mk, n |-> n,
                once |-> once,
                twice |-> IF variant = "core" THEN markNumber(n, pool, once)
                          ELSE CupMarkNumber(n, pool, IF stale THEN {} ELSE once, once)]
  /\ UNCHANGED gameVars

\* isMarked (line 213)
isMarked(v, mk) == v = FREE \/ v \in mk

\* the lines of hasBingo without the two diagonals
BingoLinesNoDiagonals(c) ==
  [r \in 1..5 |-> c[r]] \o [k \in 1..5 |-> << c[1][k], c[2][k], c[3][k], c[4][k], c[5][k] >>]

\* the lines hasBingo collects (lines 216-220): rows, columns, the two diagonals
BingoLines(c) ==
  [r \in 1..5 |-> c[r]]
    \o [k \in 1..5 |-> << c[1][k], c[2][k], c[3][k], c[4][k], c[5][k] >>]
    \o << << c[1][1], c[2][2], c[3][3], c[4][4], c[5][5] >> >>
    \o << << c[1][5], c[2][4], c[3][3], c[4][2], c[5][1] >> >>

\* hasBingo (lines 215-222): lines.some((line) => line.every(isMarked))
hasBingo(c, mk) ==
  \E l \in 1..Len(BingoLines(c)) :
    \A i \in 1..Len(BingoLines(c)[l]) : isMarked(BingoLines(c)[l][i], mk)

\* the cells of the 12 lines of a card: 5 rows, 5 columns, 2 diagonals
LineCells ==
  {{<< r, k >> : k \in 1..5} : r \in 1..5}
    \cup {{<< r, k >> : r \in 1..5} : k \in 1..5}
    \cup {{<< i, i >> : i \in 1..5}, {<< i, 6 - i >> : i \in 1..5}}

\* the numbers of the card c in the cells of L
NumbersIn(c, L) == {c[rk[1]][rk[2]] : rk \in L} \ {FREE}

\* cells that meet every line of a card
HittingCells == {<< 1, 1 >>, << 2, 2 >>, << 4, 4 >>, << 5, 5 >>, << 3, 1 >>, << 1, 3 >>, << 5, 1 >>}

\* marked sets hasBingo is called with: none and all of the card's numbers, the
\* numbers of one line, those of one line but one, and all but a number of every line
BingoMarks(c) ==
  {{}, SeqToSet(cardNumberPool(c)), SeqToSet(cardNumberPool(c)) \ NumbersIn(c, HittingCells)}
    \cup {NumbersIn(c, L) : L \in LineCells}
    \cup {NumbersIn(c, L) \ {v} : L \in LineCells, v \in 1..NumMax}

CallHasBingo(o, mk) ==
  /\ call = NoCall
  /\ call' = [fn |-> "hasBingo", card |-> generateBingoCard(o), marked |-> mk,
              out |-> hasBingo(generateBingoCard(o), mk)]
  /\ UNCHANGED gameVars

\* a peg of a board the peg loop is run on
LoopPeg(id, x, y, removed, hit, num) ==
  [id |-> id, x |-> x, y |-> y, removed |-> removed, hit |-> hit, num |-> num]

\* boards the peg loop is run on: one peg in the middle of the board; a removed
\* peg with a live one below it; two live pegs side by side with a removed one
\* between them; a peg that an earlier frame has lit
LoopBoards ==
  << << LoopPeg(0, 5000, 5000, FALSE, FALSE, NoNum) >>,
     << LoopPeg(0, 5000, 5000, TRUE, TRUE, 12), LoopPeg(1, 5000, 5400, FALSE, FALSE, NoNum) >>,
     << LoopPeg(0, 4700, 5000, FALSE, FALSE, NoNum), LoopPeg(1, 5000, 5000, TRUE, TRUE, 12),
        LoopPeg(2, 5300, 5000, FALSE, FALSE, NoNum) >>,
     << LoopPeg(0, 5000, 5000, FALSE, TRUE, 12) >> >>

\* ball positions after the wall tests: above the middle peg at x = 0.5, out of
\* reach, at the reach rBall + rPeg, inside it, on the peg, below it; and beside it
LoopPoints ==
  {<< 5000, y >> : y \in {4000, 4519, 4520, 4521, 4700, 4900, 5000, 5200, 5480, 5481}}
    \cup {<< 4999, 5000 >>, << 5001, 5000 >>, << 5300, 5000 >>, << 4661, 4720 >>, << 5340, 4721 >>}

LoopSpeeds == {-8000, 0, 8000}

\* The peg loop and the bounce of a physics frame (lines 307-368) for the ball m
\* left by the wall tests: ids added to the touched set, ids given a number, the
\* id of the peg chosen for the bounce (-1 for none) and the ball after it.
CallPegLoop(k, pt, vx, vy) ==
  /\ call = NoCall
  /\ \E m \in {[x |-> pt[1], y |-> pt[2], vx |-> vx, vy |-> vy]} :
     \E ups \in {PegUpdates(LoopBoards[k], 1, m.x, m.y, cardNumberPool(generateBingoCard(0)), {}, 0)} :
       call' = [fn |-> "pegLoop", board |-> k, in |-> m,
                touched |-> TouchedIds(LoopBoards[k], m.x, m.y),
                numbered |-> {ups[i].id : i \in 1..Len(ups)},
                closest |-> IF Closest(LoopBoards[k], m.x, m.y) = 0 THEN -1
                            ELSE LoopBoards[k][Closest(LoopBoards[k], m.x, m.y)].id,
                out |-> Bounce(LoopBoards[k], m)]
  /\ UNCHANGED gameVars

\* balls the wall tests are run on, as the integration leaves them: left of,
\* on, next to and between the side walls, above and below the top wall, and
\* below the drain line
WallXs == {-200, 299, 300, 301, 5000, 9699, 9700, 9701, 10300}
WallYs == {-200, 299, 300, 301, 5000, 10600, 10601, 11500}
WallSpeeds == {-8000, -1, 0, 8000}

\* the wall tests of a physics frame (lines 292-305) on the ball m
CallWalls(x, y, vx, vy) ==
  /\ call = NoCall
  /\ call' = [fn |-> "walls", in |-> [x |-> x, y |-> y, vx |-> vx, vy |-> vy],
              out |-> Walls([x |-> x, y |-> y, vx |-> vx, vy |-> vy])]
  /\ UNCHANGED gameVars

\* the ball a physics frame leaves in ballRef (lines 283-379), for the ball b it
\* finds there, the pegs ps and the clamped interval dt
PhysicsFrame(ps, b, dt) == Settle(Bounce(ps, Walls(Integrate(b, dt))))

\* intervals between two frames in ms: a fast frame, regular ones, slow ones
\* and a pause of the tab
DtIntervals == {1, 16, 17, 20, 21, 50, 1000}

\* balls a frame of any interval starts from: in free fall, next to a peg and
\* next to the drain line
DtBalls ==
  {[x |-> 600, y |-> 600, vx |-> -900, vy |-> 200, dropping |-> TRUE],
   [x |-> Boards[2][8].x, y |-> Boards[2][8].y - 500, vx |-> 0, vy |-> 9000, dropping |-> TRUE],
   [x |-> 5000, y |-> 10500, vx |-> 3000, vy |-> 15000, dropping |-> TRUE]}

\* step called elapsed ms after the frame before it, the ball b dropping
\* (lines 256-258 and 283-379)
CallStepAfter(b, elapsed) ==
  /\ call = NoCall
  /\ call' = [fn |-> "stepAfter", in |-> b, elapsed |-> elapsed, dt |-> ClampDt(elapsed),
              out |-> PhysicsFrame(Boards[2], b, ClampDt(elapsed))]
  /\ UNCHANGED gameVars

\* points a score is given for a marked number (part_002 line 341) and for a
\* bingo (part_002 line 304)
MarkScore == 10
BingoScore == 100

\* the player's score after markNumber of the variant (part_002 lines 325-349)
\* has been called with the numbers ns[i], ns[i + 1], ... in turn, markedRef
\* holding mkRef and the score being sc
RECURSIVE CupScoreAll(_, _, _, _, _)
CupScoreAll(ns, i, pool, mkRef, sc) ==
  IF i > Len(ns) THEN sc
  ELSE IF ns[i] \in SeqToSet(pool) /\ ns[i] \notin mkRef
       THEN CupScoreAll(ns, i + 1, pool, mkRef, sc + MarkScore)
       ELSE CupScoreAll(ns, i + 1, pool, mkRef, sc)

\* the score of a player with the marks mk, the bingo bonus awarded or not
ScoreOf(mk, awarded) == MarkScore * Cardinality(mk) + (IF awarded THEN BingoScore ELSE 0)

\* marked sets of the card a frame of the variant starts from: no mark, and the
\* number 31 marked by a peg the ball touched before
HitMarked == {{}, {31}}

\* ball positions of the frame: on the reach of the first peg of the board and
\* between the two live pegs of the third
HitPoints == {<< 5000, 4520 >>, << 5000, 5000 >>}

\* The peg loop and the marking of a frame of the variant (part_002 lines
\* 540-594) on the board k with the ball at pt: the marked state is mk, the
\* bingo bonus has been awarded if mk holds a line, the score is that of mk;
\* markedRef.current holds mk, or, when React has not rendered since the last
\* mark (synced = FALSE), no mark; r0 is the position of the random source.
CallCupHits(k, pt, mk, synced, r0) ==
  /\ call = NoCall
  /\ \E c \in {generateBingoCard(0)} :
     \E mkRef \in {IF synced THEN mk ELSE {}} :
     \E ups \in {PegUpdates(LoopBoards[k], 1, pt[1], pt[2], cardNumberPool(c), mkRef, r0)} :
     \E ns \in {[i \in 1..Len(ups) |-> ups[i].num]} :
       call' = [fn |-> "cupHits", board |-> k, card |-> c, marked |-> mk, markedRef |-> mkRef,
                awarded |-> hasBingo(c, mk), score |-> ScoreOf(mk, hasBingo(c, mk)),
                nums |-> ns,
                markedOut |-> CupMarkAll(ns, cardNumberPool(c), mkRef, mk),
                scoreOut |-> CupScoreAll(ns, 1, cardNumberPool(c), mkRef, ScoreOf(mk, hasBingo(c, mk)))]
  /\ UNCHANGED gameVars

\* in-bounds balls a sequence of frames starts from: corners, edges and centre
\* of the board, and points on and next to pegs of the board
FrameBoards == {2, 5}
FrameSpeeds == {-30000, 0, 30000}
FramePoints(k) ==
  ({0, 300, 5000, S} \X {0, 600, 10500, 11000})
    \cup {<< Boards[k][i].x + dx, Boards[k][i].y + dy >> : i \in {1, 12, 30}, dx \in {0, 200}, dy \in {0, -300}}
FrameElapsed == {1, 16, 50}

\* the longest sequence of frames run on one ball
MaxFrames == 3

CallStep(k, pt, vx, vy, el) ==
  /\ call = NoCall
  /\ call' = [fn |-> "step", board |-> k, n |-> 1,
              out |-> PhysicsFrame(Boards[k], [x |-> pt[1], y |-> pt[2], vx |-> vx, vy |-> vy],
                                   ClampDt(el))]
  /\ UNCHANGED gameVars

CallStepAgain(el) ==
  /\ call.fn = "step"
  /\ call.out.dropping
  /\ call.n < MaxFrames
  /\ call' = [call EXCEPT !.n = @ + 1,
                          !.out = PhysicsFrame(Boards[call.board], call.out, ClampDt(el))]
  /\ UNCHANGED gameVars

\* ------------------------------------------------------------ specifications

\* The game with a player who issues a command only when its guards let it
\* through (the rejected commands are those of NextAnyInput).
Next ==
  \/ \E el \in FrameIntervals : Step(el, MaxLag)
  \/ Commit
  \/ RunEffects
  \/ \E px \in PosInputs : ~Rejected /\ HandleStart(px)
  \/ \E px \in PosInputs : isPositioningRef /\ ~Rejected /\ HandleMove(px)
  \/ isPositioningRef /\ HandleEnd
  \/ ResetBoard
  \/ \E o \in CardSeeds : NewGame(o)

Spec == Init /\ [][Next]_vars

\* The game with pointer events arriving at any time, no reset buttons.
NextAnyInput ==
  \/ \E el \in FrameIntervals : Step(el, InputLag)
  \/ Commit
  \/ RunEffects
  \/ \E px \in PosInputs : HandleStart(px)
  \/ \E px \in PosInputs : HandleMove(px)
  \/ HandleEnd

SpecAnyInput == Init /\ [][NextAnyInput]_vars

\* the game on a first card that lacks numbers the pegs can be given
SpecStray == InitStray /\ [][Next]_vars

\* The first drop of a game, with React free to fall up to LongLag frames behind.
NextFirstDrop ==
  \/ \E el \in FrameIntervals : Step(el, LongLag)
  \/ Commit
  \/ RunEffects
  \/ \E px \in PosInputs : ~Rejected /\ ballsLeft = StartBalls /\ HandleStart(px)
  \/ isPositioningRef /\ HandleEnd

SpecFirstDrop == Init /\ [][NextFirstDrop]_vars

Frame == \E el \in FrameIntervals : Step(el, InputLag)

\* The first drop of a game from a position of WedgeInputs.  requestAnimationFrame
\* is re-armed by every frame (lines 279, 374, 401), so frames keep coming while
\* a ball is in flight, and React's scheduler runs every render and effect it
\* has queued.
NextWedge ==
  \/ Frame
  \/ Commit
  \/ RunEffects
  \/ \E px \in WedgeInputs : ~Rejected /\ ballsLeft = StartBalls /\ HandleStart(px)
  \/ isPositioningRef /\ HandleEnd

SpecWedge ==
  Init /\ [][NextWedge]_vars /\ []<><<Frame>>_vars /\ WF_vars(Commit) /\ WF_vars(RunEffects)

\* The first ball of a game, positioned with pointer positions of PosWide,
\* released, and positioned again after it has drained.
NextPosition ==
  \/ Frame
  \/ Commit
  \/ RunEffects
  \/ \E px \in PosWide : ~Rejected /\ HandleStart(px)
  \/ \E px \in PosWide : isPositioningRef /\ ~Rejected /\ HandleMove(px)
  \/ isPositioningRef /\ ballsLeft = StartBalls /\ HandleEnd

SpecPosition == Init /\ [][NextPosition]_vars

\* a ball is in flight, or a settled one has work left for the frames and effects
InPlay == ballRef.dropping \/ CleanupDue \/ "ball" \in pending \cup effects

\* One drop of the variant with the cup, from the release until the ball is at rest.
\* React keeps up with the frames while the ball is above CupNear and may fall
\* CupLag frames behind below it.
NextCup ==
  \/ \E el \in FrameIntervals : InPlay /\ CupFrame(el, IF ballRef.y > CupNear THEN CupLag ELSE 1)
  \/ CupCommit
  \/ CupRunEffects

SpecCup == InitCup /\ [][NextCup]_vars

\* The helpers of the game, each applied on its own to arguments of the sets above.
NextCalls ==
  \/ \E count \in PegCounts, src \in JitterSources, r0 \in 0..1 : CallGeneratePegs(count, src, r0)
  \/ \E pool \in PickPools : \E mk \in PickMarked(pool) : \E roll \in PickRolls, r2 \in PickDraws :
       CallPickHitNumber(pool, mk, roll, r2)
  \/ \E k \in FrameBoards : \E pt \in FramePoints(k) : \E vx \in FrameSpeeds, vy \in FrameSpeeds :
       \E el \in FrameElapsed : CallStep(k, pt, vx, vy, el)
  \/ \E el \in FrameElapsed : CallStepAgain(el)
  \/ \E pool \in PickPools : \E mk \in PickMarked(pool) : \E n \in MarkNumbers :
       \E variant \in {"core", "cup"}, stale \in BOOLEAN : CallMarkNumber(variant, pool, mk, n, stale)
  \/ \E o \in CardSeeds : \E mk \in BingoMarks(generateBingoCard(o)) : CallHasBingo(o, mk)
  \/ \E k \in 1..Len(LoopBoards) : \E pt \in LoopPoints : \E vx \in LoopSpeeds, vy \in LoopSpeeds :
       CallPegLoop(k, pt, vx, vy)
  \/ \E x \in WallXs, y \in WallYs, vx \in WallSpeeds, vy \in WallSpeeds : CallWalls(x, y, vx, vy)
  \/ \E b \in DtBalls, el \in DtIntervals : CallStepAfter(b, el)
  \/ \E k \in {1, 3}, pt \in HitPoints, mk \in HitMarked, synced \in BOOLEAN, r0 \in 0..(RngLen - 1) :
       CallCupHits(k, pt, mk, synced, r0)

SpecCalls == Init /\ [][NextCalls]_vars

\* ------------------------------------------------------------ claims

PegIds == 1..BoardPegs

\* the callback that ran last replaced the board
BoardReset == op \in {"resetBoard", "newGame"}

\* C1: between two board resets a peg's assigned number, once set, never
\* changes: no step of the game replaces a number a peg already carries.
C1_NumberAssignedOnce ==
  [][~BoardReset' => \A i \in PegIds : pegs[i].num # NoNum => pegs'[i].num = pegs[i].num]_vars

\* the step about to run is the end-of-drop cleanup (line 263 passed)
CleanupStep == op' = "step" /\ ~ballRef.dropping /\ CleanupDue

\* the state right after an end-of-drop cleanup that removed a peg
AfterCleanup ==
  /\ op = "step" /\ ~ballRef.dropping /\ hitPegIdsRef = {} /\ "pegs" \in pending
  /\ \E i \in PegIds : pegs[i].removed

\* C2: the cleanup removes every peg of the touched set, leaves the removed
\* flag of every other peg as it was, and empties the touched set.
C2_CleanupRemovesTouched ==
  [][CleanupStep =>
       /\ \A i \in PegIds : pegs'[i].removed = (pegs[i].removed \/ pegs[i].id \in hitPegIdsRef)
       /\ hitPegIdsRef' = {}]_vars

C2_Witness == AfterCleanup

\* the numbers of the touched pegs that are not removed yet, in peg order
TouchedNums == HitNums(pegs, 1, hitPegIdsRef)

TouchedLive == {i \in PegIds : ~pegs[i].removed /\ pegs[i].id \in hitPegIdsRef}

\* C3: numbers reach markNumber only from the cleanup, which passes the assigned
\* number of every touched, not yet removed peg once and in peg order; a removed
\* peg stays removed until the board is reset, so no number is passed twice.
C3_EmittedByCleanupOnce ==
  [][/\ emitted' # << >> => CleanupStep
     /\ CleanupStep => emitted' = TouchedNums /\ Len(emitted') = Cardinality(TouchedLive)
     /\ ~BoardReset' => \A i \in PegIds : pegs[i].removed => pegs'[i].removed]_vars

\* C4: every released ball reaches a terminal condition: whenever the physics
\* ball is dropping, a later frame makes it not dropping.
C4_ReleasedBallSettles == ballRef.dropping ~> ~ballRef.dropping

\* the callback that ran last is a release that handleEnd accepted
ReleaseAccepted == op = "end" /\ ballRef.dropping /\ ballRef.y = SpawnY /\ ballRef.vy = ReleaseVy

\* C5: the frame that takes the ball below the drain line leaves it at y = 1.06
\* with zero velocity and dropping = false, and from then on the physics ball's
\* dropping flag turns true again only by an accepted release.
C5_DrainTerminal ==
  [][/\ (op' = "step" /\ ballRef.dropping /\ ~ballRef'.dropping) =>
          ballRef'.y = DrainY /\ ballRef'.vx = 0 /\ ballRef'.vy = 0
     /\ (~ballRef.dropping /\ ballRef'.dropping) => ReleaseAccepted']_vars

\* the step about to run is a release that handleEnd accepts
ReleaseStep == op' = "end" /\ isPositioningRef /\ ~Rejected

\* C6: an accepted release takes one ball from balls-left, empties the touched
\* set and starts the drop at y = 0.06 with vy = 0.02 and vx within
\* [-0.09, 0.09]; pegs, card and marked set stay as they are.
C6_AcceptedRelease ==
  [][ReleaseStep =>
       /\ ballsLeft' = ballsLeft - 1
       /\ hitPegIdsRef' = {}
       /\ ball'.dropping /\ ball'.y = SpawnY /\ ball'.vy = ReleaseVy
       /\ ball'.vx >= -900 /\ ball'.vx <= 900
       /\ ballRef' = ball'
       /\ pegs' = pegs /\ card' = card /\ marked' = marked]_vars

C6_Witness == ReleaseAccepted /\ hitPegIdsRef = {} /\ ballsLeft = StartBalls - 2

\* the ball is in flight, for the physics loop or for React
InFlight == ballRef.dropping \/ ball.dropping

\* C7: a release issued while the ball is dropping or while no ball is left
\* changes neither balls-left nor the ball nor the touched set nor the pegs.
C7_RejectedReleaseIsNoOp ==
  [][(op' = "end" /\ (InFlight \/ ballsLeft = 0)) =>
       UNCHANGED << ballsLeft, ball, ballRef, hitPegIdsRef, pegs >>]_vars

C7_Witness == op = "end" /\ ballRef.dropping /\ ballRef.y > SpawnY /\ hitPegIdsRef # {}

\* a pointer command is about to be handled
Command == op' \in {"start", "move", "end"}

\* C8: while the cleanup of a finished drop is pending no command is accepted,
\* and a release is accepted only when no touched peg waits for its removal.
C8_CleanupBeforeNextCommand ==
  [][/\ (~ballRef.dropping /\ CleanupDue /\ Command) =>
          UNCHANGED << ball, ballRef, ballsLeft, hitPegIdsRef, isPositioningRef >>
     /\ ReleaseStep => hitPegIdsRef = {}]_vars

\* C9: a positionBall command (handleStart, handleMove) issued while the ball
\* is dropping changes no field of the ball, in React's state or in the
\* physics loop's ref.
C9_NoPositioningWhileDropping ==
  [][(op' \in {"start", "move"} /\ InFlight) => ball' = ball /\ ballRef' = ballRef]_vars

C9_Witness == op \in {"start", "move"} /\ ballRef.dropping /\ ballRef.y > SpawnY

\* C10: a frame that runs while the ball is not dropping leaves the ball as it
\* is, gives no peg a number and adds nothing to the touched set; between two
\* not-dropping states the ball's x changes only by handleStart, handleMove,
\* resetBoard or newGame.
C10_IdleFrameLeavesBall ==
  [][/\ (op' = "step" /\ ~ballRef.dropping) =>
          /\ ballRef' = ballRef /\ ball' = ball
          /\ \A i \in PegIds : pegs'[i].num # NoNum => pegs'[i].num = pegs[i].num
          /\ hitPegIdsRef' \subseteq hitPegIdsRef
     /\ (~ball.dropping /\ ~ball'.dropping /\ ball'.x # ball.x) =>
          op' \in {"start", "move", "resetBoard", "newGame"}]_vars

C10_Witness == op = "step" /\ ~ballRef.dropping /\ ballRef.y = SpawnY /\ ballRef.x = PosMin

\* the frame about to run finds a settled ball whose cleanup has already run
SecondCleanup == op' = "step" /\ ~ballRef.dropping /\ ballRef.y >= CleanupY /\ hitPegIdsRef = {}

\* C11: cleanup is idempotent: a frame on a settled ball whose touched set the
\* cleanup has emptied removes no peg, emits nothing and leaves pegs, marked
\* set and touched set as they are; and the cleanup's map applied again to
\* its own result with the same touched set changes no peg and finds no number.
C11_CleanupIdempotent ==
  [][/\ SecondCleanup => UNCHANGED << pegs, marked, hitPegIdsRef >> /\ emitted' = << >>
     /\ CleanupStep => /\ CleanupMap(pegs', hitPegIdsRef) = pegs'
                       /\ HitNums(pegs', 1, hitPegIdsRef) = << >>]_vars

C11_Witness ==
  /\ op = "step" /\ ~ballRef.dropping /\ ballRef.y = DrainY /\ hitPegIdsRef = {}
  /\ pending = {} /\ effects = {} /\ ballsLeft = StartBalls - 1
  /\ \E i \in PegIds : pegs[i].removed

\* a peg as generatePegs makes it
Fresh(p) == ~p.removed /\ ~p.hit /\ p.num = NoNum

\* the board and the ball right after a reset
BoardRespawned ==
  /\ Len(pegs) = BoardPegs
  /\ \A i \in PegIds : Fresh(pegs[i])
  /\ hitPegIdsRef = {}
  /\ ball = SpawnBall
  /\ ballRef = SpawnBall

\* C12: resetBoard, in whatever state it is issued, leaves balls-left, card and
\* marked set as they are; after it every peg is fresh, the touched set is
\* empty and the ball rests at the spawn point (0.5, 0.06), not dropping.
C12_ResetBoard ==
  [][op' = "resetBoard" =>
       /\ ballsLeft' = ballsLeft /\ card' = card /\ marked' = marked
       /\ BoardRespawned']_vars

C12_Witness ==
  op = "resetBoard" /\ ballsLeft = StartBalls - 1 /\ BoardRespawned /\ rendered.ball = SpawnBall

\* C13: newGame, in whatever state it is issued, sets balls-left to 5, empties
\* the marked set, draws a new card and does all resetBoard does; after it
\* the guard of the pointer handlers lets a release through again.
C13_NewGame ==
  [][op' = "newGame" =>
       /\ ballsLeft' = StartBalls
       /\ marked' = {}
       /\ \E o \in CardSeeds : card' = generateBingoCard(o)
       /\ BoardRespawned'
       /\ ~Rejected']_vars

C13_Witness ==
  op = "newGame" /\ ballsLeft = StartBalls /\ rendered.ballsLeft = StartBalls /\ marked = {}
                 /\ card = generateBingoCard(7) /\ BoardRespawned

\* count pegs, numbered from 0, fresh and inside the inset rectangle
WellFormedPegs(ps, count) ==
  /\ Len(ps) = count
  /\ \A i \in 1..count :
       /\ ps[i].id = i - 1
       /\ Fresh(ps[i])
       /\ ps[i].x >= PegLeft /\ ps[i].x <= PegRight
       /\ ps[i].y >= PegTop /\ ps[i].y <= PegBottom

\* C14: generatePegs(30) returns 30 pegs with the ids peg-0..peg-29, each not
\* removed, not hit, without a number, x in [0.12, 0.88] and y in [0.15, 0.90],
\* whatever the random jitter.
C14_ThirtyPegsInBounds ==
  (call.fn = "generatePegs" /\ call.count = BoardPegs) => WellFormedPegs(call.out, BoardPegs)

C14_Witness ==
  /\ call.fn = "generatePegs" /\ call.count = BoardPegs
  /\ call.out[BoardPegs].x = PegRight /\ call.out[1].x = PegLeft /\ call.out[1].y = PegTop

\* C15: generatePegs(count) returns count pegs with well-defined coordinates
\* inside the inset rectangle for every count >= 1.
C15_AnyCountInBounds ==
  call.fn = "generatePegs" => WellFormedPegs(call.out, call.count)

\* C16: after every frame of a sequence of frames that starts from an
\* in-bounds ball, with any interval and on any of the boards, the ball's x
\* is in [0, 1] and its y in [0, 1.1].
C16_BallStaysInBounds ==
  call.fn = "step" =>
    /\ call.out.x >= 0 /\ call.out.x <= S
    /\ call.out.y >= 0 /\ call.out.y <= 11000

\* the last frame of a sequence has stopped the ball at the right wall and
\* turned it back
C16_Witness ==
  /\ call.fn = "step" /\ call.n = MaxFrames /\ call.out.dropping
  /\ call.out.x = S - rBall /\ call.out.vx < 0

\* the unmarked numbers of the pool of the call
CallUnmarked == SeqToSet(call.pool) \ call.marked

\* C17: pickHitNumber returns a member of pool \ marked or an integer of
\* 1..75; it returns a member of pool \ marked when that set is not empty and
\* the roll is below 0.75, and an integer of 1..75 drawn without regard to
\* the pool when the set is empty or the roll is 0.75 or more.
C17_PickHitNumberRange ==
  call.fn = "pickHitNumber" =>
    /\ call.out \in CallUnmarked \cup (1..NumMax)
    /\ (CallUnmarked # {} /\ call.roll < 7500) => call.out \in CallUnmarked
    /\ (CallUnmarked = {} \/ call.roll >= 7500) => call.out \in 1..NumMax

C17_Witness ==
  /\ call.fn = "pickHitNumber" /\ call.roll = 7499 /\ call.marked # {}
  /\ call.out \in CallUnmarked /\ Cardinality(CallUnmarked) > 1

\* C18: the cleanup step leaves the ball where it drained, at y = 1.06 and not
\* dropping, in React's state and in the physics loop's ref: it does not put
\* the ball back at the spawn point.
C18_CleanupLeavesBallSettled ==
  [][CleanupStep =>
       /\ ball' = ball /\ ballRef' = ballRef
       /\ ballRef'.y = DrainY /\ ~ballRef'.dropping]_vars

C18_Witness == AfterCleanup /\ ballRef.y = DrainY /\ ball.y = DrainY /\ ball.x # SpawnX

\* C18 as stated: when the cleanup step has run the ball is at the spawn
\* position (0.5, 0.06).
C18_CleanupRespawnsBall ==
  [][CleanupStep =>
       /\ ballRef'.x = SpawnX /\ ballRef'.y = SpawnY
       /\ ball'.x = SpawnX /\ ball'.y = SpawnY]_vars

BallIdle == ~ballRef.dropping /\ ~ball.dropping

\* an accepted handleStart or handleMove with pointer position px
PositionStep(px) ==
  \/ ~Rejected /\ HandleStart(px)
  \/ isPositioningRef /\ ~Rejected /\ HandleMove(px)

\* what an accepted positionBall(px) does to the game
PositionEffect(px) ==
  /\ ball'.x = clamp(px, PosMin, PosMax)
  /\ ball'.y = ball.y /\ ball'.vx = ball.vx /\ ball'.vy = ball.vy
  /\ ball'.dropping = ball.dropping
  /\ ballsLeft' = ballsLeft /\ pegs' = pegs /\ hitPegIdsRef' = hitPegIdsRef

\* C20: an accepted positionBall sets x to the input clamped into
\* [0.06, 0.94] and leaves y, vx, vy, dropping, balls-left, pegs and touched
\* set alone; a ball that waits for input has x in [0.03, 0.97], and x in
\* [0.06, 0.94] while it is being positioned.
C20_PositionClamps ==
  [][/\ \A px \in PosWide : PositionStep(px) => PositionEffect(px)
     /\ BallIdle => ball.x >= rBall /\ ball.x <= S - rBall
     /\ (BallIdle /\ isPositioningRef) => ball.x >= PosMin /\ ball.x <= PosMax]_vars

C20_Witness ==
  /\ op = "start" /\ ballsLeft = StartBalls - 1 /\ BallIdle
  /\ ball.x = PosMax /\ ball.y = DrainY

\* C20 as stated: an accepted positionBall sets x to the clamped input and
\* leaves the rest alone, and a ball that waits for input always has x in
\* [0.06, 0.94].
C20_IdleXInPositionRange ==
  [][/\ \A px \in PosWide : PositionStep(px) => PositionEffect(px)
     /\ BallIdle => ball.x >= PosMin /\ ball.x <= PosMax]_vars

\* C21: in the variant with the cup, a falling ball that a frame leaves in the
\* cup ends its drop there: over the whole drop, from the release until the ball
\* is at rest, balls-left goes up by one capture at most (capped at 10).
C21_OneCapturePerDrop == \E bl \in CupBalls : ballsLeft \in {bl, Caught(bl)}

\* the helper applied last is markNumber
CallMark == call.fn = "markNumber"

\* C22: marking is idempotent: markNumber(n) for a number already marked leaves
\* the marked set as it was, and marking a number twice gives the marked set
\* that marking it once gives.
C22_MarkNumberIdempotent ==
  CallMark => /\ call.n \in call.marked => call.once = call.marked
              /\ call.twice = call.once

\* a marked number of the card has been marked again
C22_Witness ==
  CallMark /\ call.n \in call.marked /\ call.n \in SeqToSet(call.pool) /\ call.once = call.marked

\* a game has just begun: the component has mounted or newGame has run
GameStart == op \in {"init", "newGame"}

\* C23: the player gets 5 balls per game: a game begins with 5 balls left, and
\* handleEnd accepts at most 5 releases before the next newGame, whatever
\* resetBoard, positioning and frames come in between.
C23_FiveBallsPerGame ==
  /\ GameStart => ballsLeft = StartBalls /\ releases = 0
  /\ releases <= StartBalls

\* the fifth ball of a game has been released, after a reset of the board
C23_Witness == releases = StartBalls /\ ballsLeft = 0 /\ afterReset > 0 /\ op = "end"

\* the helper applied last is hasBingo
CallBingo == call.fn = "hasBingo"

\* every cell of the line L of the card c is FREE or marked
LineDone(c, mk, L) == \A rk \in L : c[rk[1]][rk[2]] = FREE \/ c[rk[1]][rk[2]] \in mk

MinPegs == 40

\* the board has just been generated: at the mount, by resetBoard or by newGame
BoardFresh == op \in {"init", "resetBoard", "newGame"}

\* C25: a freshly generated board (the initial one, the one after resetBoard and
\* the one after newGame) holds at least 40 pegs.
C25_FortyPegs == BoardFresh => Len(pegs) >= MinPegs

\* the helper applied last is the peg loop of a physics frame
CallLoop == call.fn = "pegLoop"

\* the pegs of the board the peg loop was applied to
LoopPegs == SeqToSet(LoopBoards[call.board])

\* C26: a physics frame adds to the touched set exactly the pegs that are not
\* removed and whose squared distance to the ball after the wall tests is at
\* most (rBall + rPeg)^2, the boundary included; a removed peg is not added,
\* gets no number and is not chosen for the bounce.
C26_TouchedAreLivePegsInReach ==
  CallLoop =>
    /\ call.touched = {p.id : p \in {q \in LoopPegs :
                          ~q.removed /\ Dist2(call.in.x, call.in.y, q) <= (rBall + rPeg) * (rBall + rPeg)}}
    /\ \A p \in LoopPegs : p.removed => p.id \notin call.touched \cup call.numbered \cup {call.closest}

\* the ball is straight above the peg at (0.5, 0.5), its centre rBall + rPeg
\* from the peg's, and the peg is touched
C26_Witness ==
  /\ CallLoop /\ call.board = 1
  /\ call.in.x = 5000 /\ call.in.y = 5000 - (rBall + rPeg)
  /\ call.touched = {0} /\ call.numbered = {0}

\* positions in peg order of the pegs the loop does not skip
LivePegs == {i \in 1..Len(LoopBoards[call.board]) : ~LoopBoards[call.board][i].removed}

\* squared distance of the ball to the peg at position i
LoopDist2(i) == Dist2(call.in.x, call.in.y, LoopBoards[call.board][i])

\* the live peg with the least squared distance to the ball, the first on ties
Nearest(i) ==
  /\ i \in LivePegs
  /\ \A j \in LivePegs : LoopDist2(i) < LoopDist2(j) \/ (LoopDist2(i) = LoopDist2(j) /\ i <= j)

\* C27: in a physics frame at most one peg changes the ball's velocity and
\* position, the live peg with the least squared distance to the ball (the
\* first in peg order on ties); the other pegs that overlap the ball do not
\* deflect it and are still recorded as touched.
C27_OnlyNearestPegDeflects ==
  CallLoop =>
    /\ LivePegs = {} => call.closest = -1 /\ call.out = call.in
    /\ \A i \in LivePegs : Nearest(i) =>
          /\ call.closest = LoopBoards[call.board][i].id
          /\ call.out = BounceOff(call.in, LoopBoards[call.board][i])
    /\ \A j \in LivePegs : LoopDist2(j) <= rr => LoopBoards[call.board][j].id \in call.touched

\* two live pegs overlap the ball at the same distance: both are touched and
\* the ball has bounced off the first one alone
C27_Witness ==
  /\ CallLoop /\ call.board = 3 /\ call.touched = {0, 2} /\ call.closest = 0
  /\ LoopDist2(1) = LoopDist2(3) /\ LoopDist2(1) < rr
  /\ call.out # call.in /\ call.out.x > call.in.x

\* the ball m reflected off the peg p at centre distance dist: velocity mirrored
\* about the normal from the peg to the ball and scaled by 0.88, position moved
\* along the normal by 0.8 times the penetration and clamped to the board
Reflected(m, p, dist) ==
  LET nx == Rnd((m.x - p.x) * S, dist)
      ny == Rnd((m.y - p.y) * S, dist)
      vdot == Rnd(m.vx * nx + m.vy * ny, S)
  IN [x |-> clamp(m.x + Rnd(nx * (minDist - dist) * 8, 10 * S), rBall, S - rBall),
      y |-> clamp(m.y + Rnd(ny * (minDist - dist) * 8, 10 * S), rBall, 11000),
      vx |-> Rnd((m.vx - Rnd(2 * vdot * nx, S)) * 88, 100),
      vy |-> Rnd((m.vy - Rnd(2 * vdot * ny, S)) * 88, 100)]

\* the nearest live peg is at position i and its centre is less than
\* rBall + rPeg from the ball's
Overlaps(i) == Nearest(i) /\ LoopDist2(i) < minDist * minDist

\* C28: whenever the nearest live peg overlaps the ball, the frame reflects the
\* ball off it; with the ball's centre on the peg's centre too, where the ball
\* is moved off the peg by 0.8 times the penetration.
C28_OverlapReflects ==
  CallLoop =>
    \A i \in LivePegs : Overlaps(i) =>
      IF LoopDist2(i) > 0
      THEN call.out = Reflected(call.in, LoopBoards[call.board][i], Sqrt(LoopDist2(i)))
      ELSE Dist2(call.out.x, call.out.y, LoopBoards[call.board][i]) > 0

\* C29: while the ball is dropping, the physics ball in ballRef is written by
\* the physics step alone (and by the resets, which end the drop): the effect
\* that copies the ball state into ballRef never puts an older snapshot in its
\* place, so the ball is never rewound between release and settle.
C29_BallRefWrittenByStepOnly ==
  [][(ballRef.dropping /\ ballRef' # ballRef) => op' \in {"step", "resetBoard", "newGame"}]_vars

\* a drop starts: the physics ball's dropping flag goes from false to true
DropStarts == ~ballRef.dropping /\ ballRef'.dropping

\* C30: balls-left plus the drops started since the last newGame is always 5:
\* the sum is 5 when a game begins, every step that starts a drop takes one
\* ball, and no other step but newGame changes balls-left.
C30_BallsPlusDropsIsFive ==
  /\ GameStart => ballsLeft = StartBalls /\ ~ballRef.dropping
  /\ [][op' # "newGame" =>
          /\ DropStarts => ballsLeft' = ballsLeft - 1
          /\ ~DropStarts => ballsLeft' = ballsLeft]_vars

\* the helper applied last is the wall stage of a physics frame
CallWall == call.fn = "walls"

\* C31: after the wall stage the ball has x in [0.03, 0.97] and y >= 0.03; vx is
\* multiplied by -0.85 exactly when x was clamped at a side wall, vy by -0.35
\* exactly when y was clamped at the top, and nothing is clamped or reflected
\* at the bottom.
C31_WallStage ==
  CallWall =>
    /\ call.out.x >= 300 /\ call.out.x <= 9700 /\ call.out.y >= 300
    /\ call.out.x = (IF call.in.x < 300 THEN 300 ELSE IF call.in.x > 9700 THEN 9700 ELSE call.in.x)
    /\ call.out.vx = (IF call.in.x < 300 \/ call.in.x > 9700
                      THEN Rnd(call.in.vx * (-85), 100) ELSE call.in.vx)
    /\ call.out.y = (IF call.in.y < 300 THEN 300 ELSE call.in.y)
    /\ call.out.vy = (IF call.in.y < 300 THEN Rnd(call.in.vy * (-35), 100) ELSE call.in.vy)

\* a ball past the right wall and below the drain line: x is clamped and vx
\* turned, y and vy are as they were
C31_Witness ==
  /\ CallWall /\ call.in.x > 9700 /\ call.in.y > DrainY /\ call.in.vx = 8000 /\ call.in.vy = 8000
  /\ call.out = [x |-> 9700, y |-> call.in.y, vx |-> -6800, vy |-> 8000]

\* the helper applied last is step, called some time after the frame before it
CallAfter == call.fn = "stepAfter"

\* the longest time a physics step covers, in ms (line 257)
MaxDt == 20

\* C32: every physics step uses an elapsed time of at most 0.02 s whatever the
\* interval between the frames, and no interval makes a frame skip its step
\* while the ball is dropping: the step runs with the interval, cut to 0.02 s.
C32_DtClampedNoStepSkipped ==
  CallAfter =>
    /\ call.dt <= MaxDt
    /\ call.dt = (IF call.elapsed <= MaxDt THEN call.elapsed ELSE MaxDt)
    /\ call.out = Settle(Bounce(Boards[2], Walls(Integrate(call.in, call.dt))))
    /\ call.out # call.in

\* a frame that comes a second after the one before it moves the ball as a
\* frame after 20 ms does
C32_Witness ==
  /\ CallAfter /\ call.elapsed = 1000 /\ call.dt = MaxDt
  /\ call.in.y = 600 /\ call.out = PhysicsFrame(Boards[2], call.in, 20) /\ call.out.y = 610

\* the peg has a number
Numbered(p) == p.num # NoNum

\* C33: in every reachable state a peg has an assigned number if and only if its
\* hit flag is true, in the peg state and in the collection the frames scan.
C33_NumberIffHit ==
  /\ \A i \in 1..Len(pegs) : Numbered(pegs[i]) <=> pegs[i].hit
  /\ \A i \in 1..Len(pegsRef) : Numbered(pegsRef[i]) <=> pegsRef[i].hit

\* a frame has lit a peg and given it a number, the other pegs have neither
C33_Witness ==
  /\ op = "step" /\ ballRef.dropping
  /\ \E i \in PegIds : pegs[i].hit /\ Numbered(pegs[i]) /\ ~pegs[i].removed
  /\ \E i \in PegIds : ~pegs[i].hit /\ ~Numbered(pegs[i])

\* C34: in every reachable state every removed peg has hit = true and an
\* assigned number: a peg is removed only after the ball touched it and its
\* number was recorded on the published peg collection.
C34_RemovedPegsAreLit ==
  \A i \in 1..Len(pegs) : pegs[i].removed => pegs[i].hit /\ Numbered(pegs[i])

\* C35: between two board resets the peg collection keeps the same ids and
\* positions, and a peg's removed flag and hit flag are monotone: once true they
\* stay true until resetBoard or newGame replaces the whole collection.
SamePeg(p, q) == p.id = q.id /\ p.x = q.x /\ p.y = q.y

C35_PegsKeptFlagsMonotone ==
  [][~BoardReset' =>
       /\ Len(pegs') = Len(pegs)
       /\ \A i \in 1..Len(pegs) :
            /\ SamePeg(pegs[i], pegs'[i])
            /\ pegs[i].removed => pegs'[i].removed
            /\ pegs[i].hit => pegs'[i].hit]_vars

\* the ball a physics frame hands to the peg loop after the elapsed time el
FrameBall(el) == Walls(Integrate(ballRef, ClampDt(el)))

\* id of the peg the bounce of lines 349-368 picks for the ball m
Deflector(m) == pegsRef[Closest(pegsRef, m.x, m.y)].id

\* C36: any peg that deflects the ball in a frame is in the touched set at the
\* end of that frame (the bounce test dist < rBall + rPeg implies the touch test
\* d2 <= (rBall + rPeg)^2), the touched set only grows during a drop, and the
\* cleanup removes every peg in it: every peg that ever bounced the ball
\* during a drop is scheduled for removal.
C36_BounceImpliesTouch ==
  [][op' = "step" =>
       IF ballRef.dropping
       THEN /\ hitPegIdsRef \subseteq hitPegIdsRef'
            /\ \A el \in FrameIntervals :
                 LET m == FrameBall(el)
                 IN ballRef' = Settle(Bounce(pegsRef, m)) /\ Bounce(pegsRef, m) # m
                      => Deflector(m) \in hitPegIdsRef'
       ELSE CleanupDue =>
              \A i \in 1..Len(pegsRef) : pegsRef[i].id \in hitPegIdsRef => pegs'[i].removed]_vars

\* a frame has sent the ball upward, which only a peg does, and the touched
\* set holds a peg
C36_Witness ==
  /\ op = "step" /\ ballRef.dropping /\ ballRef.vy < 0
  /\ hitPegIdsRef # {}

\* the numbers of the current card
CardNumbers == SeqToSet(cardNumberPool(card))

\* C37: in every reachable state the marked set is a subset of the current
\* card's number pool, across newGame (card regenerated, marks cleared) and
\* across cleanups that emit numbers that are not on the card.
C37_MarkedOnCard == marked \subseteq CardNumbers

\* a cleanup has emitted a number of the card and a number that is not on it:
\* the first is marked, the second is not
C37_Witness ==
  /\ op = "step" /\ marked # {}
  /\ \E i \in 1..Len(emitted) : emitted[i] \in marked
  /\ \E i \in 1..Len(emitted) : emitted[i] \notin CardNumbers

\* the peg loop and the marking of a frame of the variant have been applied
CallHits == call.fn = "cupHits"

\* C38: in the variant with the cup the player's score always equals 10 times
\* the size of the marked set, plus 100 if the player's bingo has been awarded
\* in this game: each number is scored at most once.
C38_ScoreIsTenPerMark ==
  CallHits => call.scoreOut = ScoreOf(call.markedOut, call.awarded)

====
